---- MODULE Spec2Model ----
\* Authentication and session lifecycle of the Wyndo API:
\* TokenService, AuthService, AuthController, the /api/auth router and the
\* authenticate middleware, over the persistent store (users, sessions,
\* devices).  Each HTTP request is a handler run by a request slot; a handler
\* is cut into steps at the store reads and writes whose interleaving with
\* other requests matters.
EXTENDS Integers, Sequences, FiniteSets, TLC

\* ---------------------------------------------------------------- bounds
MaxTicks == 1         \* clock advances in one behaviour
MaxRt == 3            \* refresh tokens (and session ids) drawn
MaxGen == 2           \* TOTP secrets / backup-code batches / reset tokens drawn
MaxCodeIdx == 2       \* backup codes of a batch a client presents (1..MaxCodeIdx)
MaxTokenTicks == 1    \* clock advances while Sessions are refreshed
MaxSkew == 3          \* time steps an authenticator's clock is off, either way
MaxTextLen == 2       \* code units of a plaintext handed to encrypt
MaxTotal == 2         \* largest invoice total
MaxAmount == 2        \* largest amount of one mark-paid request
MaxPayments == 3      \* mark-paid requests served in one behaviour

\* ------------------------------------------------------- program constants
AccessTtl == 900          \* '15m'
TempTtl == 600            \* '10m'
SessionTtl == 604800      \* 7 * 24 * 60 * 60 (seconds)
ResetTtl == 3600          \* 60 * 60 (seconds)
TotpStep == 30            \* speakeasy time step (seconds)
BackupBatch == 10         \* Array.from({ length: 10 })
CtrlLoginWindow == 1      \* verifyMfa window
CtrlEnableWindow == 1     \* AuthController.enableMfa window
RouteEnableWindow == 2    \* POST /mfa/enable window
TrialTtl == 1209600       \* 14 * 24 * 60 * 60 (seconds)

\* ------------------------------------------------------------ input sets
Procs == {"p1", "p2"}
UserIds == {"u1", "u2"}
Passwords == {"pwA", "pwB"}
InitialPw == "pwA"      \* the password every account is registered with
DeviceIds == {"d1"}
MfaUsers == {"u1"}      \* the accounts that enrol in MFA
RawEmails == {"u1", "U1", "u2"}   \* req.body.email as typed
Impls == {"ctrl", "route"}        \* AuthController / the /api/auth router
MailOutcomes == {"sent", "throws"} \* what the email transport does with a send

VARIABLES
  users,      \* store: User rows, keyed by (lower-cased) email
  sessions,   \* store: Session rows
  devices,    \* store: Device rows
  now,        \* server clock, seconds
  proc,       \* request slots: the handler each is running and its locals
  nextRt,     \* next crypto.randomBytes(32) refresh token
  nextGen,    \* next random secret / backup batch / reset token
  issued,     \* JWTs signed with config.jwt.secret so far
  ticks,      \* clock advances
  rtUsed,     \* history: refresh tokens a refresh has succeeded with
  rtDouble,   \* history: refresh tokens a refresh has succeeded with twice
  resetUsed,  \* history: reset tokens a confirm has succeeded with
  resetDouble,\* history: reset tokens a confirm has succeeded with twice
  bcUsed,     \* history: backup codes a verification has succeeded with
  bcDouble,   \* history: backup codes a verification has succeeded with twice
  tempUsed,   \* history: temp tokens an MFA verification has succeeded with
  invoices,   \* store: Invoice rows, keyed by id
  payments,   \* store: Payment rows
  jobs,       \* store: Job rows, keyed by id
  vault       \* one secret on its way through encrypt and decrypt

vars == <<users, sessions, devices, now, proc, nextRt, nextGen, issued,
          ticks, rtUsed, rtDouble, resetUsed, resetDouble, bcUsed, bcDouble,
          tempUsed, invoices, payments, jobs, vault>>

store == <<users, sessions, devices>>
hist == <<rtUsed, rtDouble, resetUsed, resetDouble, bcUsed, bcDouble, tempUsed>>

\* what the authentication handlers never touch
books == <<invoices, payments, jobs, vault>>

\* ------------------------------------------------------------ pure parts

\* utils/password: a salted one-way hash; verification recomputes it.
HashPassword(pw) == [alg |-> "bcrypt", pw |-> pw]

VerifyPassword(pw, h) == h.alg = "bcrypt" /\ h.pw = pw

\* utils/encryption: the blob is salt:iv:tag:ciphertext (four fields).
Encrypt(text) == [fields |-> 4, ct |-> text]

Decrypt(blob) == blob.ct

\* email.toLowerCase() / express-validator normalizeEmail()
ToLowerCase(e) == IF e = "U1" THEN "u1" ELSE e

\* crypto.createHash('sha256').update(token).digest('hex')
Sha256(t) == [sha |-> t]

\* jwt.sign({ userId, type }, secret, { expiresIn }): iat is the clock.
Jwt(u, type, t) == [userId |-> u, type |-> type, iat |-> t]

JwtTtl(j) == IF j.type = "access" THEN AccessTtl ELSE TempTtl

\* jwt.verify(token, secret): signature and expiry, nothing else.
JwtVerify(j) == j \in issued /\ now < j.iat + JwtTtl(j)

\* speakeasy.totp: the code of a secret at a time step.
TotpCode(secret, step) == [kind |-> "totp", id |-> secret, n |-> step]

BackupCode(batch, i) == [kind |-> "backup", id |-> batch, n |-> i]

BadCode == [kind |-> "bad", id |-> 0, n |-> 0]

CurrentStep == now \div TotpStep

TotpVerify(secret, code, window) ==
  /\ code.kind = "totp"
  /\ code.id = secret
  /\ code.n >= CurrentStep - window
  /\ code.n <= CurrentStep + window

\* Array.from({ length: 10 }, () => randomBytes(4).toString('hex'))
NewBackupCodes(batch) == [i \in 1..BackupBatch |-> BackupCode(batch, i)]

\* Array.prototype.indexOf, 0 when absent (the code's -1).
IndexOf(seq, x) ==
  IF \E i \in 1..Len(seq) : seq[i] = x
  THEN CHOOSE i \in 1..Len(seq) : seq[i] = x /\ \A j \in 1..(i - 1) : seq[j] # x
  ELSE 0

\* Array.prototype.splice(i, 1)
Splice(seq, i) == [j \in 1..(Len(seq) - 1) |-> IF j < i THEN seq[j] ELSE seq[j + 1]]

\* JSON.stringify(backupCodes) as AuthController stores it.
JsonCodes(seq) == [fmt |-> "json", codes |-> seq]

\* backupCodes.map(encrypt) as POST /mfa/setup stores it.
EncCodes(seq) == [fmt |-> "encArray", codes |-> [i \in 1..Len(seq) |-> Encrypt(seq[i])]]

\* ------------------------------------------- utils/encryption, in detail
\* A string is a sequence of UTF-16 code units, a Buffer a sequence of bytes.
\* Code units a plaintext is made of: an ASCII letter, the field separator,
\* a character of two UTF-8 bytes, and a high surrogate that no low
\* surrogate follows.
CodeUnits == {"a", ":", "e_acute", "D83D"}

Plaintexts == UNION {[1..n -> CodeUnits] : n \in 0..MaxTextLen}

\* config.encryption.key
Keys == {"k1", "k2"}

\* crypto.randomBytes: a salt and an IV, each shortened to one byte
RandomBytes == {0, 255}

\* the UTF-8 bytes of one code unit; an unpaired surrogate is written as
\* U+FFFD
Utf8Unit(c) ==
  CASE c = "a" -> <<97>>
    [] c = ":" -> <<58>>
    [] c = "e_acute" -> <<195, 169>>
    [] OTHER -> <<239, 191, 189>>

\* cipher.update(text, 'utf8', ...): the bytes of the string
RECURSIVE Utf8Encode(_)
Utf8Encode(text) ==
  IF text = <<>> THEN <<>> ELSE Utf8Unit(Head(text)) \o Utf8Encode(Tail(text))

\* decipher.update(..., 'utf8'): the string of the bytes
RECURSIVE Utf8Decode(_)
Utf8Decode(bytes) ==
  IF bytes = <<>> THEN <<>>
  ELSE IF Head(bytes) = 97 THEN <<"a">> \o Utf8Decode(Tail(bytes))
  ELSE IF Head(bytes) = 58 THEN <<":">> \o Utf8Decode(Tail(bytes))
  ELSE IF Len(bytes) >= 2 /\ SubSeq(bytes, 1, 2) = <<195, 169>>
  THEN <<"e_acute">> \o Utf8Decode(SubSeq(bytes, 3, Len(bytes)))
  ELSE IF Len(bytes) >= 3 /\ SubSeq(bytes, 1, 3) = <<239, 191, 189>>
  THEN <<"FFFD">> \o Utf8Decode(SubSeq(bytes, 4, Len(bytes)))
  ELSE <<"FFFD">> \o Utf8Decode(Tail(bytes))

HexDigits ==
  <<"0", "1", "2", "3", "4", "5", "6", "7", "8", "9", "a", "b", "c", "d", "e", "f">>

\* buffer.toString('hex')
RECURSIVE Hex(_)
Hex(bytes) ==
  IF bytes = <<>> THEN <<>>
  ELSE <<HexDigits[(Head(bytes) \div 16) + 1], HexDigits[(Head(bytes) % 16) + 1]>>
         \o Hex(Tail(bytes))

DigitValue(ch) == (CHOOSE i \in 1..16 : HexDigits[i] = ch) - 1

\* Buffer.from(text, 'hex')
RECURSIVE Unhex(_)
Unhex(chars) ==
  IF Len(chars) < 2 THEN <<>>
  ELSE <<DigitValue(chars[1]) * 16 + DigitValue(chars[2])>>
         \o Unhex(SubSeq(chars, 3, Len(chars)))

\* crypto.pbkdf2Sync(key, salt, 100000, 32, 'sha256'): a function of key and salt
Pbkdf2(key, salt) == ((IF key = "k1" THEN 17 ELSE 101) + salt) % 256

\* the i-th byte of the AES-GCM key stream for a derived key and an IV
KeyStream(dk, iv, i) == (dk * 31 + iv * 7 + i) % 256

\* createCipheriv(...).update + final: each byte combined with the key stream
Cipher(bytes, dk, iv) ==
  [i \in 1..Len(bytes) |-> (bytes[i] + KeyStream(dk, iv, i)) % 256]

\* createDecipheriv(...).update + final: the combination undone
Decipher(bytes, dk, iv) ==
  [i \in 1..Len(bytes) |-> (bytes[i] + 256 - KeyStream(dk, iv, i)) % 256]

RECURSIVE SumBytes(_)
SumBytes(bytes) == IF bytes = <<>> THEN 0 ELSE Head(bytes) + SumBytes(Tail(bytes))

\* cipher.getAuthTag(): a function of derived key, IV and ciphertext
AuthTag(dk, iv, ct) == (dk + iv * 3 + SumBytes(ct) + Len(ct)) % 256

\* encrypt(text, key), salt and iv being its two randomBytes draws:
\* `${salt hex}:${iv hex}:${tag hex}:${ciphertext hex}`
encrypt(text, key, salt, iv) ==
  LET dk == Pbkdf2(key, salt)
      ct == Cipher(Utf8Encode(text), dk, iv) IN
  Hex(<<salt>>) \o <<":">> \o Hex(<<iv>>) \o <<":">> \o Hex(<<AuthTag(dk, iv, ct)>>)
    \o <<":">> \o Hex(ct)

\* String.prototype.split(':')
RECURSIVE Split(_)
Split(s) ==
  IF \A i \in 1..Len(s) : s[i] # ":" THEN <<s>>
  ELSE LET i == CHOOSE k \in 1..Len(s) : s[k] = ":" /\ \A m \in 1..(k - 1) : s[m] # ":" IN
       <<SubSeq(s, 1, i - 1)>> \o Split(SubSeq(s, i + 1, Len(s)))

Thrown(msg) == [ok |-> FALSE, text |-> <<>>, error |-> msg]

Returned(text) == [ok |-> TRUE, text |-> text, error |-> ""]

\* decrypt(encryptedData, key): throws unless there are four fields, and
\* (decipher.final) unless the auth tag fits
decrypt(encryptedData, key) ==
  LET parts == Split(encryptedData) IN
  IF Len(parts) # 4 THEN Thrown("Invalid encrypted data format")
  ELSE LET salt == Unhex(parts[1])
           iv == Unhex(parts[2])
           tag == Unhex(parts[3])
           ct == Unhex(parts[4]) IN
       IF Len(salt) # 1 \/ Len(iv) # 1 \/ Len(tag) # 1
       THEN Thrown("Unsupported state or unable to authenticate data")
       ELSE IF AuthTag(Pbkdf2(key, salt[1]), iv[1], ct) # tag[1]
       THEN Thrown("Unsupported state or unable to authenticate data")
       ELSE Returned(Utf8Decode(Decipher(ct, Pbkdf2(key, salt[1]), iv[1])))

\* ---------------------------------------------------------------- store
NoUser ==
  [exists |-> FALSE, passwordHash |-> {}, mfaEnabled |-> FALSE, mfaSecret |-> {},
   backupCodes |-> {}, resetHash |-> {}, resetExpiry |-> {}, lastLoginAt |-> {},
   deletedAt |-> {}, tier |-> "none", status |-> "none", trialEndsAt |-> {}]

NewUser(pw) ==
  [exists |-> TRUE, passwordHash |-> {HashPassword(pw)}, mfaEnabled |-> FALSE,
   mfaSecret |-> {}, backupCodes |-> {}, resetHash |-> {}, resetExpiry |-> {},
   lastLoginAt |-> {}, deletedAt |-> {}, tier |-> "FREE", status |-> "TRIAL",
   trialEndsAt |-> {now + TrialTtl}]

The(S) == CHOOSE x \in S : TRUE

SessionsOf(u) == {s \in sessions : s.userId = u}

\* TokenService.createSession: the row it inserts.
\* via and mfaSeen are history: the handler that created the row and the
\* mfaEnabled flag that handler read.
NewSession(u, d, via, mfaSeen) ==
  [id |-> nextRt, userId |-> u, token |-> Jwt(u, "access", now),
   refreshToken |-> nextRt, deviceId |-> d, expiresAt |-> now + SessionTtl,
   createdAt |-> now, lastUsedAt |-> now, via |-> via, mfaSeen |-> mfaSeen]

\* what a request tells about the client: body.deviceInfo.name and
\* .platform ("" when absent) and the User-Agent header
NoDeviceInfo == [name |-> "", platform |-> "", ua |-> "curl"]

\* AuthService.detectPlatform
DetectPlatform(info) ==
  IF info.platform # "" THEN info.platform
  ELSE IF info.ua \in {"iPhone", "iPad", "iPod"} THEN "ios"
  ELSE IF info.ua = "Android" THEN "android"
  ELSE "web"

\* AuthService.generateDeviceName
GenerateDeviceName(info) ==
  IF info.name # "" THEN info.name
  ELSE IF info.ua = "iPhone" THEN "iPhone"
  ELSE IF info.ua = "iPad" THEN "iPad"
  ELSE IF info.ua = "Android" THEN "Android Device"
  ELSE IF info.ua = "Macintosh" THEN "Mac"
  ELSE IF info.ua = "Windows" THEN "Windows PC"
  ELSE IF info.ua = "Linux" THEN "Linux"
  ELSE "Unknown Device"

\* the id the store draws for the n-th row it creates: a string, as device
\* ids are, and different from every device id a handler derives
RowId(n) == <<"row1", "row2", "row3", "row4", "row5", "row6", "row7", "row8">>[n]

\* an upsert whose update branch also rewrites name and platform
RecordDeviceOverwrites(u, d, info) ==
  {x \in devices : ~(x.userId = u /\ x.deviceId = d)}
    \cup {[id |-> RowId(nextRt), userId |-> u, deviceId |-> d,
           name |-> GenerateDeviceName(info), platform |-> DetectPlatform(info),
           lastUsedAt |-> now]}

\* AuthService.recordDevice: prisma.device.upsert on the unique pair
\* (userId, deviceId); create writes name and platform, update writes
\* lastUsedAt alone.  The row id is drawn by the store.
RecordDeviceWith(u, d, info) ==
  IF \E x \in devices : x.userId = u /\ x.deviceId = d
  THEN {IF x.userId = u /\ x.deviceId = d THEN [x EXCEPT !.lastUsedAt = now] ELSE x
          : x \in devices}
  ELSE devices \cup {[id |-> RowId(nextRt), userId |-> u, deviceId |-> d,
                      name |-> GenerateDeviceName(info),
                      platform |-> DetectPlatform(info), lastUsedAt |-> now]}

\* recordDevice for a request that carries no deviceInfo
RecordDevice(u, d) == RecordDeviceWith(u, d, NoDeviceInfo)

\* ------------------------------------------------ invoices, payments, jobs
InvoiceIds == {"inv1"}

JobIds == {"job1"}

NoInvoice ==
  [exists |-> FALSE, userId |-> "none", total |-> 0, amountPaid |-> 0,
   amountDue |-> 0, status |-> "none", paidAt |-> {}]

\* prisma.invoice.create: amountDue: total, status: 'DRAFT' (amountPaid
\* defaults to 0)
NewInvoice(u, total) ==
  [exists |-> TRUE, userId |-> u, total |-> total, amountPaid |-> 0,
   amountDue |-> total, status |-> "DRAFT", paidAt |-> {}]

NoJob ==
  [exists |-> FALSE, userId |-> "none", status |-> "none", actualStart |-> {},
   actualEnd |-> {}, completionNotes |-> {}]

\* prisma.job.create: status: 'SCHEDULED'
NewJob(u) ==
  [exists |-> TRUE, userId |-> u, status |-> "SCHEDULED", actualStart |-> {},
   actualEnd |-> {}, completionNotes |-> {}]

\* no secret is on its way through encrypt and decrypt
NoVault ==
  [pc |-> "none", text |-> <<>>, key |-> "none", data |-> <<>>, whole |-> TRUE,
   out |-> Returned(<<>>)]

\* ---------------------------------------------------------- request slots
IdleProc ==
  [pc |-> "idle", op |-> "none", impl |-> "none", uid |-> "none", n |-> 0,
   pw |-> "none", code |-> BadCode, dev |-> "none", snap |-> {}, mfaSeen |-> FALSE,
   tok |-> {}, info |-> NoDeviceInfo, ref |-> "none"]

Free(p) == proc[p].pc = "idle"

Running(p) == proc[p].pc # "idle"

Req(op, impl) == [IdleProc EXCEPT !.op = op, !.impl = impl]

\* the handler answers and its slot is released
Finish(p) == proc' = [proc EXCEPT ![p] = IdleProc]

\* the handler awaits its next store call
Await(p, r, pc) == proc' = [proc EXCEPT ![p] = [r EXCEPT !.pc = pc]]

\* middleware/auth authenticate: jwt.verify, then the user must exist and
\* not be soft-deleted.
Authenticate(j) ==
  JwtVerify(j) /\ users[j.userId].exists /\ users[j.userId].deletedAt = {}

\* the accounts, sessions and request slots when the server starts
AuthInit ==
  /\ users = [u \in UserIds |-> NoUser]
  /\ sessions = {}
  /\ devices = {}
  /\ now = 0
  /\ proc = [p \in Procs |-> IdleProc]
  /\ nextRt = 1
  /\ nextGen = 1
  /\ issued = {}
  /\ ticks = 0
  /\ rtUsed = {}
  /\ rtDouble = {}
  /\ resetUsed = {}
  /\ resetDouble = {}
  /\ bcUsed = {}
  /\ bcDouble = {}
  /\ tempUsed = {}

\* no invoice, payment or job yet
BooksInit ==
  /\ invoices = [i \in InvoiceIds |-> NoInvoice]
  /\ payments = {}
  /\ jobs = [i \in JobIds |-> NoJob]

Init == AuthInit /\ BooksInit /\ vault = NoVault

\* ------------------------------------------------------------- handlers

\* register, the answer: 409 when the normalised email is taken; 201 after
\* the user, session and device are written; the router awaits the welcome
\* email outside any try/catch of its own, so a throwing send lands in the
\* handler's catch (500); AuthController wraps the send in try/catch.
RegisterResult(e, impl, mail) ==
  IF users[ToLowerCase(e)].exists THEN 409
  ELSE IF impl = "route" /\ mail = "throws" THEN 500
  ELSE 201

\* AuthController.register / POST /register: the writes precede the email
Register(p, e, pw, d, impl, mail) ==
  /\ Free(p)
  /\ LET u == ToLowerCase(e) IN
     IF RegisterResult(e, impl, mail) = 409
     THEN UNCHANGED <<store, nextRt, issued>>
     ELSE /\ nextRt <= MaxRt
          /\ users' = [users EXCEPT ![u] = NewUser(pw)]
          /\ sessions' = sessions \cup {NewSession(u, d, "register", FALSE)}
          /\ devices' = RecordDevice(u, d)
          /\ nextRt' = nextRt + 1
          /\ issued' = issued \cup {Jwt(u, "access", now)}
  /\ UNCHANGED <<now, proc, nextGen, ticks, hist, books>>

\* a login that never looks at the soft-delete marker
LoginResultIgnoresDeleted(u, pw) ==
  IF ~users[u].exists \/ users[u].passwordHash = {} THEN "401"
  ELSE IF ~VerifyPassword(pw, The(users[u].passwordHash)) THEN "401"
  ELSE IF users[u].mfaEnabled THEN "requiresMfa"
  ELSE "session"

\* a login that never looks at mfaEnabled
LoginResultIgnoresMfa(u, pw) ==
  IF ~users[u].exists \/ users[u].passwordHash = {} THEN "401"
  ELSE IF ~VerifyPassword(pw, The(users[u].passwordHash)) THEN "401"
  ELSE IF users[u].deletedAt # {} THEN "401"
  ELSE "session"

\* login up to the MFA branch: "401", "requiresMfa" (temp token only) or
\* "session" (go on to createSession)
LoginResult(u, pw) ==
  IF ~users[u].exists \/ users[u].passwordHash = {} THEN "401"
  ELSE IF ~VerifyPassword(pw, The(users[u].passwordHash)) THEN "401"
  ELSE IF users[u].deletedAt # {} THEN "401"
  ELSE IF users[u].mfaEnabled THEN "requiresMfa"
  ELSE "session"

\* AuthController.login / POST /login: find the user, verify the password,
\* branch on mfaEnabled.  d is the device id the handler derived, info the
\* rest of what the request tells about the client.
LoginReadFrom(p, u, pw, d, info) ==
  /\ Free(p)
  /\ LET r == [Req("login", "ctrl") EXCEPT !.uid = u, !.dev = d, !.info = info,
                                           !.pw = pw,
                                           !.mfaSeen = users[u].mfaEnabled] IN
     IF LoginResult(u, pw) = "401"
     THEN UNCHANGED <<proc, issued>>
     ELSE IF LoginResult(u, pw) = "requiresMfa"
     THEN /\ issued' = issued \cup {Jwt(u, "mfa_temp", now)}
          /\ UNCHANGED proc
     ELSE /\ Await(p, r, "login_create")
          /\ UNCHANGED issued
  /\ UNCHANGED <<store, now, nextRt, nextGen, ticks, hist, books>>

\* login by a request that carries no deviceInfo
LoginRead(p, u, pw, d) == LoginReadFrom(p, u, pw, d, NoDeviceInfo)

\* login, after the MFA branch: createSession, recordDevice, lastLoginAt.
LoginCreate(p) ==
  /\ proc[p].pc = "login_create"
  /\ nextRt <= MaxRt
  /\ LET r == proc[p]
         u == r.uid IN
     /\ sessions' = sessions \cup {NewSession(u, r.dev, "login", r.mfaSeen)}
     /\ devices' = RecordDeviceWith(u, r.dev, r.info)
     /\ users' = [users EXCEPT ![u].lastLoginAt = {now}]
     /\ nextRt' = nextRt + 1
     /\ issued' = issued \cup {Jwt(u, "access", now)}
     /\ Finish(p)
  /\ UNCHANGED <<now, nextGen, ticks, hist, books>>

\* prisma.session.findUnique({ where: { refreshToken } })
FindByRefreshToken(rt) == {s \in sessions : s.refreshToken = rt}

\* a refresh lookup that never looks at expiresAt
RefreshResultIgnoresExpiry(rt) ==
  IF FindByRefreshToken(rt) = {} THEN "null" ELSE "rotate"

\* refreshAccessToken, the lookup: null (401) when no row or row expired
RefreshResult(rt) ==
  IF FindByRefreshToken(rt) = {} \/ (\E s \in FindByRefreshToken(rt) : s.expiresAt < now)
  THEN "null"
  ELSE "rotate"

\* TokenService.refreshAccessToken: the findUnique and the null check
RefreshFind(p, rt) ==
  /\ Free(p)
  /\ IF RefreshResult(rt) = "null"
     THEN UNCHANGED proc
     ELSE Await(p, [Req("refresh", "ctrl") EXCEPT !.n = rt,
                                                  !.snap = FindByRefreshToken(rt),
                                                  !.uid = The(FindByRefreshToken(rt)).userId],
                "refresh_update")
  /\ UNCHANGED <<store, now, nextRt, nextGen, issued, ticks, hist, books>>

\* a refresh that also pushes the Session's expiry out (sliding expiry)
RotatedSlidesExpiry(s, u) ==
  [s EXCEPT !.token = Jwt(u, "access", now), !.refreshToken = nextRt,
            !.lastUsedAt = now, !.expiresAt = now + SessionTtl]

\* a refresh that re-signs the access token but leaves the stored refresh
\* token in place
RotatedKeepsToken(s, u) ==
  [s EXCEPT !.token = Jwt(u, "access", now), !.lastUsedAt = now]

\* the row prisma.session.update({ where: { id } }) writes
Rotated(s, u) ==
  [s EXCEPT !.token = Jwt(u, "access", now), !.refreshToken = nextRt,
            !.lastUsedAt = now]

\* TokenService.refreshAccessToken: prisma.session.update({ where: { id } })
RefreshUpdate(p) ==
  /\ proc[p].pc = "refresh_update"
  /\ LET r == proc[p]
         old == The(r.snap)
         cur == {s \in sessions : s.id = old.id} IN
     IF cur = {}
     THEN \* update of a deleted row throws: the handler answers 500
          UNCHANGED <<sessions, nextRt, issued, rtUsed, rtDouble>>
     ELSE /\ nextRt <= MaxRt
          /\ sessions' = (sessions \ cur) \cup {Rotated(The(cur), old.userId)}
          /\ nextRt' = nextRt + 1
          /\ issued' = issued \cup {Jwt(old.userId, "access", now)}
          /\ rtUsed' = rtUsed \cup {r.n}
          /\ rtDouble' = IF r.n \in rtUsed THEN rtDouble \cup {r.n} ELSE rtDouble
  /\ Finish(p)
  /\ UNCHANGED <<users, devices, now, nextGen, ticks, resetUsed, resetDouble,
                 bcUsed, bcDouble, tempUsed, books>>

\* a revokeSession that deletes every Session of the token's user
RevokeSessionWholeUser(j) == {s \in sessions : s.userId # j.userId}

\* TokenService.revokeSession: deleteMany({ where: { token } })
RevokeSession(j) == {s \in sessions : s.token # j}

\* a revokeAllSessions that only deletes the expired rows of the user
RevokeAllSessionsExpiredOnly(u) ==
  {s \in sessions : s.userId # u \/ s.expiresAt >= now}

\* TokenService.revokeAllSessions: deleteMany({ where: { userId } })
RevokeAllSessions(u) == {s \in sessions : s.userId # u}

\* POST /logout and POST /logout-all, the answer: 401 from authenticate,
\* else 200 whatever deleteMany matched
LogoutResult(j) == IF Authenticate(j) THEN 200 ELSE 401

\* POST /logout: authenticate, then TokenService.revokeSession(token)
Logout(p, j) ==
  /\ Free(p)
  /\ Authenticate(j)
  /\ sessions' = RevokeSession(j)
  /\ UNCHANGED <<users, devices, now, proc, nextRt, nextGen, issued, ticks, hist, books>>

\* POST /logout-all: authenticate, then TokenService.revokeAllSessions(userId)
LogoutAll(p, j) ==
  /\ Free(p)
  /\ Authenticate(j)
  /\ sessions' = RevokeAllSessions(j.userId)
  /\ UNCHANGED <<users, devices, now, proc, nextRt, nextGen, issued, ticks, hist, books>>

\* GET /devices: the Device rows of the user, each with its row id and its
\* deviceId
GetDevices(u) == {x \in devices : x.userId = u}

\* revokeDeviceSessions: the rows of the findMany whose deviceInfo.deviceId
\* is the given one
DeviceSessions(S, d) == {s \in S : s.deviceId = d}

\* removeDevice / DELETE /devices/:deviceId, first store call:
\* AuthController deletes the Device rows with (userId, deviceId = param);
\* the router's revokeDeviceSessions reads the user's Sessions.
RemoveDeviceStart(p, j, param, impl) ==
  /\ Free(p)
  /\ Authenticate(j)
  /\ LET r == [Req("removeDevice", impl) EXCEPT !.uid = j.userId, !.dev = param] IN
     IF impl = "ctrl"
     THEN /\ devices' = {x \in devices : ~(x.userId = j.userId /\ x.deviceId = param)}
          /\ Await(p, r, "remove_finish")
     ELSE /\ UNCHANGED devices
          /\ Await(p, [r EXCEPT !.snap = SessionsOf(j.userId)], "remove_finish")
  /\ UNCHANGED <<users, sessions, now, nextRt, nextGen, issued, ticks, hist, books>>

\* the Sessions of the router's snapshot that session.delete({ id }) no
\* longer finds
GoneSince(p) ==
  {s \in DeviceSessions(proc[p].snap, proc[p].dev) : \A t \in sessions : t.id # s.id}

\* removeDevice, the answer: session.delete of a row that is gone throws
\* and the router answers 500; deleteMany never throws
RemoveDeviceResult(p) ==
  IF proc[p].impl = "route" /\ GoneSince(p) # {} THEN 500 ELSE 200

\* DELETE /devices/:deviceId: prisma.device.deleteMany({ id: param, userId })
RemoveDeviceRows(u, param) ==
  {x \in devices : ~(x.id = param /\ x.userId = u)}

\* removeDevice, the rest: AuthController deletes the user's Sessions whose
\* deviceInfo.deviceId is param; the router deletes the snapshot's matching
\* Sessions one by one (in the order findMany gave, stopping at the first
\* that is gone) and then the Device row whose id is param.
RemoveDeviceFinish(p) ==
  /\ proc[p].pc = "remove_finish"
  /\ LET u == proc[p].uid
         d == proc[p].dev
         doomed == {s.id : s \in DeviceSessions(proc[p].snap, d)} IN
     IF proc[p].impl = "ctrl"
     THEN /\ sessions' = {s \in sessions : ~(s.userId = u /\ s.deviceId = d)}
          /\ UNCHANGED devices
     ELSE IF RemoveDeviceResult(p) = 200
     THEN /\ sessions' = {s \in sessions : s.id \notin doomed}
          /\ devices' = RemoveDeviceRows(u, d)
     ELSE /\ \E D \in SUBSET doomed : sessions' = {s \in sessions : s.id \notin D}
          /\ UNCHANGED devices
  /\ Finish(p)
  /\ UNCHANGED <<users, now, nextRt, nextGen, issued, ticks, hist, books>>

\* the server clock moves on by d seconds
Tick(d) ==
  /\ ticks < MaxTicks
  /\ now' = now + d
  /\ ticks' = ticks + 1
  /\ UNCHANGED <<store, proc, nextRt, nextGen, issued, hist, books>>

\* clock advances while Sessions live: an access-token lifetime, a Session
\* lifetime (to the instant of expiry), and past it
TokenDeltas == {AccessTtl, SessionTtl, SessionTtl + AccessTtl}

TokenTick(d) ==
  /\ ticks < MaxTokenTicks
  /\ now' = now + d
  /\ ticks' = ticks + 1
  /\ UNCHANGED <<store, proc, nextRt, nextGen, issued, hist, books>>

\* a setup that turns MFA on together with storing the secret
SetupWriteEnables(u, impl) ==
  [users EXCEPT ![u].mfaSecret = {Encrypt(nextGen)}, ![u].mfaEnabled = TRUE]

\* AuthController.setupMfa (impl "ctrl") / POST /mfa/setup (impl "route"):
\* a new secret is stored encrypted; the route also stores ten encrypted
\* backup codes.  mfaEnabled is not among the written fields.
SetupWrite(u, impl) ==
  IF impl = "ctrl"
  THEN [users EXCEPT ![u].mfaSecret = {Encrypt(nextGen)}]
  ELSE [users EXCEPT ![u].mfaSecret = {Encrypt(nextGen)},
                     ![u].backupCodes = {EncCodes(NewBackupCodes(nextGen))}]

SetupMfa(p, j, impl) ==
  /\ Free(p)
  /\ Authenticate(j)
  /\ nextGen <= MaxGen
  /\ users' = SetupWrite(j.userId, impl)
  /\ nextGen' = nextGen + 1
  /\ UNCHANGED <<sessions, devices, now, proc, nextRt, issued, ticks, hist, books>>

EnableWindow(impl) == IF impl = "ctrl" THEN CtrlEnableWindow ELSE RouteEnableWindow

\* enableMfa up to the write: 400 without a secret, 401 on a wrong code
EnableResult(u, code, impl) ==
  IF users[u].mfaSecret = {} THEN "400"
  ELSE IF ~TotpVerify(Decrypt(The(users[u].mfaSecret)), code, EnableWindow(impl)) THEN "401"
  ELSE "write"

\* AuthController.enableMfa / POST /mfa/enable: read the user, verify the code
EnableRead(p, j, code, impl) ==
  /\ Free(p)
  /\ Authenticate(j)
  /\ IF EnableResult(j.userId, code, impl) = "write"
     THEN Await(p, [Req("enableMfa", impl) EXCEPT !.uid = j.userId], "enable_write")
     ELSE UNCHANGED proc
  /\ UNCHANGED <<store, now, nextRt, nextGen, issued, ticks, hist, books>>

\* enableMfa: prisma.user.update({ mfaEnabled: true [, backupCodes] })
EnableWrite(p) ==
  /\ proc[p].pc = "enable_write"
  /\ LET u == proc[p].uid IN
     IF proc[p].impl = "ctrl"
     THEN /\ nextGen <= MaxGen
          /\ users' = [users EXCEPT ![u].mfaEnabled = TRUE,
                                    ![u].backupCodes = {JsonCodes(NewBackupCodes(nextGen))}]
          /\ nextGen' = nextGen + 1
     ELSE /\ users' = [users EXCEPT ![u].mfaEnabled = TRUE]
          /\ UNCHANGED nextGen
  /\ Finish(p)
  /\ UNCHANGED <<sessions, devices, now, nextRt, issued, ticks, hist, books>>

\* enableMfa, the answer after the write: AuthController sends the backup
\* codes inside try/catch, the router sends no email
EnableWriteResult(impl, mail) == 200

\* disableMfa up to the write: password, then the code if a secret is stored
DisableResult(u, pw, code) ==
  IF users[u].passwordHash = {} THEN "400"
  ELSE IF ~VerifyPassword(pw, The(users[u].passwordHash)) THEN "401"
  ELSE IF users[u].mfaSecret # {}
          /\ ~TotpVerify(Decrypt(The(users[u].mfaSecret)), code, CtrlLoginWindow) THEN "401"
  ELSE "write"

\* AuthController.disableMfa: read the user, verify password and code
DisableRead(p, j, pw, code) ==
  /\ Free(p)
  /\ Authenticate(j)
  /\ IF DisableResult(j.userId, pw, code) = "write"
     THEN Await(p, [Req("disableMfa", "ctrl") EXCEPT !.uid = j.userId], "disable_write")
     ELSE UNCHANGED proc
  /\ UNCHANGED <<store, now, nextRt, nextGen, issued, ticks, hist, books>>

\* disableMfa: prisma.user.update({ mfaEnabled: false, mfaSecret: null, backupCodes: null })
DisableWrite(p) ==
  /\ proc[p].pc = "disable_write"
  /\ users' = [users EXCEPT ![proc[p].uid].mfaEnabled = FALSE,
                            ![proc[p].uid].mfaSecret = {},
                            ![proc[p].uid].backupCodes = {}]
  /\ Finish(p)
  /\ UNCHANGED <<sessions, devices, now, nextRt, nextGen, issued, ticks, hist, books>>

\* a verifyTempToken that forgets the type tag
VerifyTempTokenAnyType(j) == JwtVerify(j)

\* TokenService.verifyTempToken: jwt.verify and the type tag
VerifyTempToken(j) == JwtVerify(j) /\ j.type = "mfa_temp"

\* temp tokens that were not signed with config.jwt.secret
ForgedTempTokens == {Jwt(u, "mfa_temp", -1) : u \in MfaUsers}

\* verifyMfa up to the writes: "401", "500" (JSON.parse of the array that
\* POST /mfa/setup stored throws), "totp" or "backup"
VerifyMfaResult(j, code) ==
  IF ~VerifyTempToken(j) THEN "401"
  ELSE IF ~users[j.userId].exists \/ users[j.userId].mfaSecret = {} THEN "401"
  ELSE IF TotpVerify(Decrypt(The(users[j.userId].mfaSecret)), code, CtrlLoginWindow) THEN "totp"
  ELSE IF users[j.userId].backupCodes = {} THEN "401"
  ELSE IF The(users[j.userId].backupCodes).fmt # "json" THEN "500"
  ELSE IF IndexOf(The(users[j.userId].backupCodes).codes, code) = 0 THEN "401"
  ELSE "backup"

\* backupCodes.splice(codeIndex, 1); JSON.stringify(backupCodes)
Consumed(u, code) ==
  JsonCodes(Splice(The(users[u].backupCodes).codes,
                   IndexOf(The(users[u].backupCodes).codes, code)))

\* AuthController.verifyMfa: temp token, user, TOTP code, then the backup
\* codes.  snap holds the spliced list the handler is about to write back.
VerifyMfaRead(p, j, code, d) ==
  /\ Free(p)
  /\ LET r == [Req("verifyMfa", "ctrl") EXCEPT !.uid = j.userId, !.code = code, !.dev = d,
                                               !.mfaSeen = users[j.userId].mfaEnabled,
                                               !.tok = {j}] IN
     IF VerifyMfaResult(j, code) = "totp"
     THEN Await(p, r, "mfa_commit")
     ELSE IF VerifyMfaResult(j, code) = "backup"
     THEN Await(p, [r EXCEPT !.snap = {Consumed(j.userId, code)}], "mfa_commit")
     ELSE UNCHANGED proc
  /\ UNCHANGED <<store, now, nextRt, nextGen, issued, ticks, hist, books>>

\* verifyMfa: write the spliced backup codes back (backup path), then
\* createSession, recordDevice, lastLoginAt.
VerifyMfaCommit(p) ==
  /\ proc[p].pc = "mfa_commit"
  /\ nextRt <= MaxRt
  /\ LET r == proc[p]
         u == r.uid
         viaBackup == r.snap # {} IN
     /\ users' = IF viaBackup
                 THEN [users EXCEPT ![u].backupCodes = r.snap, ![u].lastLoginAt = {now}]
                 ELSE [users EXCEPT ![u].lastLoginAt = {now}]
     /\ sessions' = sessions \cup {NewSession(u, r.dev, "mfa", r.mfaSeen)}
     /\ devices' = RecordDevice(u, r.dev)
     /\ nextRt' = nextRt + 1
     /\ issued' = issued \cup {Jwt(u, "access", now)}
     /\ bcUsed' = IF viaBackup THEN bcUsed \cup {r.code} ELSE bcUsed
     /\ bcDouble' = IF viaBackup /\ r.code \in bcUsed THEN bcDouble \cup {r.code} ELSE bcDouble
     /\ tempUsed' = tempUsed \cup r.tok
  /\ Finish(p)
  /\ UNCHANGED <<now, nextGen, ticks, rtUsed, rtDouble, resetUsed, resetDouble, books>>

\* codes a client can submit: a wrong one, the authenticator's current code
\* for any secret handed out, and the first backup codes of any batch
Codes ==
  {BadCode}
    \cup {TotpCode(s, CurrentStep) : s \in 1..(nextGen - 1)}
    \cup {BackupCode(b, i) : b \in 1..(nextGen - 1), i \in 1..MaxCodeIdx}

\* AuthService.createPasswordResetToken: sha256 of a random token, expiry 1 h
CreatePasswordResetToken(u) ==
  [users EXCEPT ![u].resetHash = {Sha256(nextGen)}, ![u].resetExpiry = {now + ResetTtl}]

\* the reset request goes on to createPasswordResetToken: the user exists
\* (the router also wants it not soft-deleted)
ResetIssues(u, impl) ==
  users[u].exists /\ (impl = "ctrl" \/ users[u].deletedAt = {})

\* the reset request's answer: the generic message, except that the router
\* awaits the email outside any try/catch of its own, so a throwing send
\* lands in the handler's catch (500)
RequestResetResult(u, impl, mail) ==
  IF ResetIssues(u, impl) /\ impl = "route" /\ mail = "throws"
  THEN [status |-> 500, body |-> "Failed to process password reset request"]
  ELSE [status |-> 200, body |-> "If an account exists, a password reset email has been sent"]

\* AuthController.requestPasswordReset / POST /password/reset: the token is
\* stored before the email is sent
RequestPasswordReset(p, u, impl, mail) ==
  /\ Free(p)
  /\ IF ResetIssues(u, impl)
     THEN /\ nextGen <= MaxGen
          /\ users' = CreatePasswordResetToken(u)
          /\ nextGen' = nextGen + 1
     ELSE UNCHANGED <<users, nextGen>>
  /\ UNCHANGED <<sessions, devices, now, proc, nextRt, issued, ticks, hist, books>>

\* AuthService.verifyPasswordResetToken: findFirst({ hash, expiry > now }),
\* the matching user ids (empty: null)
VerifyPasswordResetToken(t) ==
  {u \in UserIds : /\ users[u].exists
                   /\ users[u].resetHash = {Sha256(t)}
                   /\ \E e \in users[u].resetExpiry : e > now}

\* confirmPasswordReset: verifyPasswordResetToken; 400 when it answers null.
\* snap keeps the Session rows at the start of the request (history).
ConfirmVerify(p, t, pw) ==
  /\ Free(p)
  /\ IF VerifyPasswordResetToken(t) = {}
     THEN UNCHANGED proc
     ELSE Await(p, [Req("confirmReset", "ctrl") EXCEPT
                      !.uid = The(VerifyPasswordResetToken(t)), !.n = t, !.pw = pw,
                      !.snap = sessions],
                "confirm_update")
  /\ UNCHANGED <<store, now, nextRt, nextGen, issued, ticks, hist, books>>

\* confirmPasswordReset: prisma.user.update({ passwordHash, reset fields: null })
ConfirmUpdate(p) ==
  /\ proc[p].pc = "confirm_update"
  /\ users' = [users EXCEPT ![proc[p].uid].passwordHash = {HashPassword(proc[p].pw)},
                            ![proc[p].uid].resetHash = {},
                            ![proc[p].uid].resetExpiry = {}]
  /\ Await(p, proc[p], "confirm_revoke")
  /\ UNCHANGED <<sessions, devices, now, nextRt, nextGen, issued, ticks, hist, books>>

\* confirmPasswordReset: tokenService.revokeAllSessions(userId), then 200
ConfirmRevoke(p) ==
  /\ proc[p].pc = "confirm_revoke"
  /\ sessions' = RevokeAllSessions(proc[p].uid)
  /\ resetUsed' = resetUsed \cup {proc[p].n}
  /\ resetDouble' = IF proc[p].n \in resetUsed THEN resetDouble \cup {proc[p].n}
                    ELSE resetDouble
  /\ Finish(p)
  /\ UNCHANGED <<users, devices, now, nextRt, nextGen, issued, ticks, rtUsed, rtDouble,
                 bcUsed, bcDouble, tempUsed, books>>

\* changePassword up to the write: 400 without a hash, 401 on a wrong
\* current password
ChangePasswordResult(u, cur) ==
  IF users[u].passwordHash = {} THEN "400"
  ELSE IF ~VerifyPassword(cur, The(users[u].passwordHash)) THEN "401"
  ELSE "write"

\* a changePassword that also logs the user out everywhere
ChangePasswordRevokes(p, j, cur, new) ==
  /\ Free(p)
  /\ Authenticate(j)
  /\ IF ChangePasswordResult(j.userId, cur) = "write"
     THEN /\ users' = [users EXCEPT ![j.userId].passwordHash = {HashPassword(new)}]
          /\ sessions' = RevokeAllSessions(j.userId)
     ELSE UNCHANGED <<users, sessions>>
  /\ UNCHANGED <<devices, now, proc, nextRt, nextGen, issued, ticks, hist, books>>

\* AuthController.changePassword: 401 on a wrong current password, else the
\* new hash is written; sessions are not touched
ChangePassword(p, j, cur, new) ==
  /\ Free(p)
  /\ Authenticate(j)
  /\ IF ChangePasswordResult(j.userId, cur) = "write"
     THEN users' = [users EXCEPT ![j.userId].passwordHash = {HashPassword(new)}]
     ELSE UNCHANGED users
  /\ UNCHANGED <<sessions, devices, now, proc, nextRt, nextGen, issued, ticks, hist, books>>

\* an account is soft-deleted: User.deletedAt is set
SoftDelete(u) ==
  /\ users[u].exists
  /\ users[u].deletedAt = {}
  /\ users' = [users EXCEPT ![u].deletedAt = {now}]
  /\ UNCHANGED <<sessions, devices, now, proc, nextRt, nextGen, issued, ticks, hist, books>>

\* an external-auth-only account is created: a User row without a password hash
ExternalSignUp(u) ==
  /\ ~users[u].exists
  /\ users' = [users EXCEPT ![u] = [NewUser(InitialPw) EXCEPT !.passwordHash = {}]]
  /\ UNCHANGED <<sessions, devices, now, proc, nextRt, nextGen, issued, ticks, hist, books>>

\* refresh tokens a client can present: every one drawn so far, and a forged one
KnownRts == 0..(nextRt - 1)

\* reset tokens a client can present: every one mailed so far, and a forged one
KnownResetTokens == 0..(nextGen - 1)

\* ---------------------------------------------- sessions and refresh tokens
NextTokens ==
  \/ \E p \in Procs, e \in RawEmails, d \in DeviceIds, impl \in Impls, mail \in MailOutcomes :
       Register(p, e, InitialPw, d, impl, mail)
  \/ \E p \in Procs, u \in UserIds, pw \in Passwords, d \in DeviceIds : LoginRead(p, u, pw, d)
  \/ \E p \in Procs : LoginCreate(p)
  \/ \E p \in Procs, rt \in KnownRts : RefreshFind(p, rt)
  \/ \E p \in Procs : RefreshUpdate(p)
  \/ \E p \in Procs, j \in issued : Logout(p, j)
  \/ \E p \in Procs, j \in issued : LogoutAll(p, j)
  \/ \E d \in TokenDeltas : TokenTick(d)

SpecTokens == Init /\ [][NextTokens]_vars

\* ------------------------------------------------------- password login
NextLogin ==
  \/ \E p \in Procs, e \in RawEmails, d \in DeviceIds, impl \in Impls, mail \in MailOutcomes :
       Register(p, e, InitialPw, d, impl, mail)
  \/ \E u \in UserIds : ExternalSignUp(u)
  \/ \E u \in UserIds : SoftDelete(u)
  \/ \E p \in Procs, u \in UserIds, pw \in Passwords, d \in DeviceIds : LoginRead(p, u, pw, d)
  \/ \E p \in Procs : LoginCreate(p)
  \/ Tick(AccessTtl)

SpecLogin == Init /\ [][NextLogin]_vars

\* ------------------------------------------------- multi-factor enrolment
NextMfa ==
  \/ \E p \in Procs, u \in MfaUsers, d \in DeviceIds, impl \in Impls, mail \in MailOutcomes :
       Register(p, u, InitialPw, d, impl, mail)
  \/ \E p \in Procs, u \in MfaUsers, pw \in Passwords, d \in DeviceIds : LoginRead(p, u, pw, d)
  \/ \E p \in Procs : LoginCreate(p)
  \/ \E p \in Procs, j \in issued, impl \in {"ctrl", "route"} : SetupMfa(p, j, impl)
  \/ \E p \in Procs, j \in issued, c \in Codes, impl \in {"ctrl", "route"} : EnableRead(p, j, c, impl)
  \/ \E p \in Procs : EnableWrite(p)
  \/ \E p \in Procs, j \in issued, pw \in Passwords, c \in Codes : DisableRead(p, j, pw, c)
  \/ \E p \in Procs : DisableWrite(p)
  \/ \E p \in Procs, j \in issued \cup ForgedTempTokens, c \in Codes, d \in DeviceIds :
       VerifyMfaRead(p, j, c, d)
  \/ \E p \in Procs : VerifyMfaCommit(p)
  \/ Tick(TempTtl)

SpecMfa == Init /\ [][NextMfa]_vars

\* ------------------------------------------------- password reset and change
NextReset ==
  \/ \E p \in Procs, e \in RawEmails, d \in DeviceIds, impl \in Impls, mail \in MailOutcomes :
       Register(p, e, InitialPw, d, impl, mail)
  \/ \E p \in Procs, u \in UserIds, pw \in Passwords, d \in DeviceIds : LoginRead(p, u, pw, d)
  \/ \E p \in Procs : LoginCreate(p)
  \/ \E p \in Procs, u \in UserIds, impl \in Impls, mail \in MailOutcomes :
       RequestPasswordReset(p, u, impl, mail)
  \/ \E p \in Procs, t \in KnownResetTokens, pw \in Passwords : ConfirmVerify(p, t, pw)
  \/ \E p \in Procs : ConfirmUpdate(p)
  \/ \E p \in Procs : ConfirmRevoke(p)
  \/ \E p \in Procs, j \in issued, cur \in Passwords, new \in Passwords : ChangePassword(p, j, cur, new)
  \/ Tick(ResetTtl)

SpecReset == Init /\ [][NextReset]_vars

\* the same handlers, each request served to its end before the next starts
Solo(p) == \A q \in Procs \ {p} : ~Running(q)

NextResetSeq ==
  \/ \E p \in Procs, e \in RawEmails, d \in DeviceIds, impl \in Impls, mail \in MailOutcomes :
       Solo(p) /\ Register(p, e, InitialPw, d, impl, mail)
  \/ \E p \in Procs, u \in UserIds, pw \in Passwords, d \in DeviceIds :
       Solo(p) /\ LoginRead(p, u, pw, d)
  \/ \E p \in Procs : Solo(p) /\ LoginCreate(p)
  \/ \E p \in Procs, u \in UserIds, impl \in Impls, mail \in MailOutcomes :
       Solo(p) /\ RequestPasswordReset(p, u, impl, mail)
  \/ \E p \in Procs, t \in KnownResetTokens, pw \in Passwords : Solo(p) /\ ConfirmVerify(p, t, pw)
  \/ \E p \in Procs : Solo(p) /\ ConfirmUpdate(p)
  \/ \E p \in Procs : Solo(p) /\ ConfirmRevoke(p)
  \/ \E p \in Procs, j \in issued, cur \in Passwords, new \in Passwords :
       Solo(p) /\ ChangePassword(p, j, cur, new)
  \/ Tick(ResetTtl)

SpecResetSeq == Init /\ [][NextResetSeq]_vars

\* -------------------------------------------------------------- devices
\* device ids the handlers derive (x-device-id, deviceInfo.deviceId or the
\* fingerprint of IP and User-Agent)
SeenDeviceIds == {"d1", "d2"}

\* the accounts that log in from several devices
DeviceUsers == {"u1"}

\* what two requests from one device tell about it
DeviceSightings ==
  {NoDeviceInfo, [name |-> "Van tablet", platform |-> "android", ua |-> "iPad"]}

\* what a client can put in DELETE /devices/:deviceId: a deviceId or a row
\* id, both listed by GET /devices
RemoveParams == SeenDeviceIds \cup {x.id : x \in devices}

\* device removals are served one at a time (logins and logouts run
\* alongside)
NoRemovalRunning == \A q \in Procs : proc[q].op # "removeDevice"

NextDevices ==
  \/ \E p \in Procs, u \in UserIds, d \in DeviceIds, impl \in Impls, mail \in MailOutcomes :
       Register(p, u, InitialPw, d, impl, mail)
  \/ \E p \in Procs, u \in DeviceUsers, pw \in Passwords, d \in SeenDeviceIds,
        info \in DeviceSightings : LoginReadFrom(p, u, pw, d, info)
  \/ \E p \in Procs : LoginCreate(p)
  \/ \E p \in Procs, j \in issued, param \in RemoveParams, impl \in Impls :
       NoRemovalRunning /\ RemoveDeviceStart(p, j, param, impl)
  \/ \E p \in Procs : RemoveDeviceFinish(p)
  \/ \E p \in Procs, j \in issued : Logout(p, j)
  \/ Tick(AccessTtl)

SpecDevices == Init /\ [][NextDevices]_vars

\* ------------------------------------------------- TOTP and clock skew
\* codes of authenticators whose clock is up to MaxSkew steps off
SkewedCodes ==
  {TotpCode(s, CurrentStep + k) : s \in 1..(nextGen - 1), k \in (0 - MaxSkew)..MaxSkew}

\* clock advances within and across a time step
TotpDeltas == {TotpStep - 1, TotpStep}

NextTotp ==
  \/ \E p \in Procs, u \in MfaUsers, d \in DeviceIds, impl \in Impls, mail \in MailOutcomes :
       Register(p, u, InitialPw, d, impl, mail)
  \/ \E p \in Procs, u \in MfaUsers, pw \in Passwords, d \in DeviceIds : LoginRead(p, u, pw, d)
  \/ \E p \in Procs : LoginCreate(p)
  \/ \E p \in Procs, j \in issued, impl \in Impls : SetupMfa(p, j, impl)
  \/ \E p \in Procs, j \in issued, c \in SkewedCodes, impl \in Impls : EnableRead(p, j, c, impl)
  \/ \E p \in Procs : EnableWrite(p)
  \/ \E p \in Procs, j \in issued, pw \in Passwords, c \in SkewedCodes : DisableRead(p, j, pw, c)
  \/ \E p \in Procs : DisableWrite(p)
  \/ \E p \in Procs, j \in issued, c \in SkewedCodes, d \in DeviceIds : VerifyMfaRead(p, j, c, d)
  \/ \E p \in Procs : VerifyMfaCommit(p)
  \/ \E d \in TotpDeltas : Tick(d)

SpecTotp == Init /\ [][NextTotp]_vars

\* ------------------------------------------------- invoices and payments
\* the authentication side stays as it is
NoAuthChange == UNCHANGED <<users, sessions, devices, now, nextRt, nextGen, issued,
                            ticks, hist>>

\* POST /api/invoices by user u: one DRAFT invoice with the computed total
CreateInvoice(u, id, total) ==
  /\ ~invoices[id].exists
  /\ invoices' = [invoices EXCEPT ![id] = NewInvoice(u, total)]
  /\ UNCHANGED <<proc, payments, jobs, vault>>
  /\ NoAuthChange

\* prisma.invoice.findFirst({ where: { id, userId } })
FindInvoice(id, u) == invoices[id].exists /\ invoices[id].userId = u

\* the amount the Payment row gets: the router takes req.body.amount,
\* InvoiceController takes amount || invoice.amountDue
PaymentAmount(inv, amount, impl) ==
  IF impl = "ctrl" /\ amount = 0 THEN inv.amountDue ELSE amount

\* mark-paid, the findFirst: 404 when the invoice is not the user's; snap
\* keeps the row as read
MarkPaidFind(p, u, id, amount, impl) ==
  /\ Free(p)
  /\ Cardinality(payments) + Cardinality({q \in Procs : proc[q].pc = "paid_create"})
       < MaxPayments
  /\ IF FindInvoice(id, u)
     THEN Await(p, [Req("markPaid", impl) EXCEPT
                      !.uid = u, !.ref = id, !.snap = {invoices[id]},
                      !.n = PaymentAmount(invoices[id], amount, impl)],
                "paid_create")
     ELSE UNCHANGED proc
  /\ UNCHANGED <<invoices, payments, jobs, vault>>
  /\ NoAuthChange

\* mark-paid: prisma.payment.create
MarkPaidCreate(p) ==
  /\ proc[p].pc = "paid_create"
  /\ payments' = payments \cup {[id |-> Cardinality(payments) + 1,
                                 invoiceId |-> proc[p].ref, amount |-> proc[p].n]}
  /\ Await(p, proc[p], "paid_update")
  /\ UNCHANGED <<invoices, jobs, vault>>
  /\ NoAuthChange

\* the status mark-paid writes: the router keeps the status it read when
\* nothing is paid yet, InvoiceController writes PARTIAL
NewStatus(inv, newAmountPaid, impl) ==
  IF inv.total - newAmountPaid <= 0 THEN "PAID"
  ELSE IF impl = "ctrl" \/ newAmountPaid > 0 THEN "PARTIAL"
  ELSE inv.status

\* the row prisma.invoice.update writes: cur is the row stored now, inv the
\* row findFirst returned, n the payment's amount
PaidRow(cur, inv, n, impl) ==
  [cur EXCEPT !.amountPaid = inv.amountPaid + n,
              !.amountDue = inv.total - (inv.amountPaid + n),
              !.status = NewStatus(inv, inv.amountPaid + n, impl),
              !.paidAt = IF inv.total - (inv.amountPaid + n) <= 0 THEN {now}
                         ELSE IF impl = "ctrl" THEN {} ELSE inv.paidAt]

\* mark-paid: prisma.invoice.update with the sums computed from the row read
MarkPaidUpdate(p) ==
  /\ proc[p].pc = "paid_update"
  /\ invoices' = [invoices EXCEPT ![proc[p].ref] =
                    PaidRow(@, The(proc[p].snap), proc[p].n, proc[p].impl)]
  /\ Finish(p)
  /\ UNCHANGED <<payments, jobs, vault>>
  /\ NoAuthChange

NextInvoices ==
  \/ \E u \in UserIds, id \in InvoiceIds, total \in 0..MaxTotal : CreateInvoice(u, id, total)
  \/ \E p \in Procs, u \in UserIds, id \in InvoiceIds, amount \in 0..MaxAmount, impl \in Impls :
       MarkPaidFind(p, u, id, amount, impl)
  \/ \E p \in Procs : MarkPaidCreate(p)
  \/ \E p \in Procs : MarkPaidUpdate(p)

SpecInvoices == Init /\ [][NextInvoices]_vars

\* ------------------------------------------------------------------ jobs
\* POST /api/jobs by user u: one SCHEDULED job
CreateJob(u, id) ==
  /\ ~jobs[id].exists
  /\ jobs' = [jobs EXCEPT ![id] = NewJob(u)]
  /\ UNCHANGED <<proc, invoices, payments, vault>>
  /\ NoAuthChange

\* prisma.job.findFirst({ where: { id, userId } })
FindJob(id, u) == jobs[id].exists /\ jobs[id].userId = u

\* start, the answer after findFirst: JobController starts from SCHEDULED,
\* the router from SCHEDULED or DRAFT
StartResult(id, u, impl) ==
  IF ~FindJob(id, u) THEN 404
  ELSE IF impl = "ctrl" /\ jobs[id].status # "SCHEDULED" THEN 400
  ELSE IF impl = "route" /\ jobs[id].status \notin {"SCHEDULED", "DRAFT"} THEN 400
  ELSE 200

\* complete, the answer after findFirst: JobController completes from
\* IN_PROGRESS or SCHEDULED, the router from any status
CompleteResult(id, u, impl) ==
  IF ~FindJob(id, u) THEN 404
  ELSE IF impl = "ctrl" /\ jobs[id].status \notin {"IN_PROGRESS", "SCHEDULED"} THEN 400
  ELSE 200

\* JobController.cancel, the answer after findFirst
CancelResult(id, u) ==
  IF ~FindJob(id, u) THEN 404
  ELSE IF jobs[id].status \in {"COMPLETED", "CANCELLED"} THEN 400
  ELSE 200

\* a job handler up to its status check
JobFind(p, u, id, op, impl, result) ==
  /\ Free(p)
  /\ IF result = 200
     THEN Await(p, [Req(op, impl) EXCEPT !.uid = u, !.ref = id], "job_update")
     ELSE UNCHANGED proc
  /\ UNCHANGED <<invoices, payments, jobs, vault>>
  /\ NoAuthChange

StartFind(p, u, id, impl) == JobFind(p, u, id, "start", impl, StartResult(id, u, impl))

CompleteFind(p, u, id, impl) ==
  JobFind(p, u, id, "complete", impl, CompleteResult(id, u, impl))

CancelFind(p, u, id) == JobFind(p, u, id, "cancel", "ctrl", CancelResult(id, u))

\* a job handler's prisma.job.update({ where: { id } })
JobUpdate(p, op, row) ==
  /\ proc[p].pc = "job_update"
  /\ proc[p].op = op
  /\ jobs' = [jobs EXCEPT ![proc[p].ref] = row]
  /\ Finish(p)
  /\ UNCHANGED <<invoices, payments, vault>>
  /\ NoAuthChange

StartUpdate(p) ==
  JobUpdate(p, "start",
            [jobs[proc[p].ref] EXCEPT !.status = "IN_PROGRESS", !.actualStart = {now}])

CompleteUpdate(p) ==
  JobUpdate(p, "complete",
            [jobs[proc[p].ref] EXCEPT !.status = "COMPLETED", !.actualEnd = {now}])

CancelUpdate(p) ==
  JobUpdate(p, "cancel",
            [jobs[proc[p].ref] EXCEPT !.status = "CANCELLED",
                                      !.completionNotes = {"Cancelled"}])

NextJobs ==
  \/ \E u \in UserIds, id \in JobIds : CreateJob(u, id)
  \/ \E p \in Procs, u \in UserIds, id \in JobIds, impl \in Impls : StartFind(p, u, id, impl)
  \/ \E p \in Procs : StartUpdate(p)
  \/ \E p \in Procs, u \in UserIds, id \in JobIds, impl \in Impls : CompleteFind(p, u, id, impl)
  \/ \E p \in Procs : CompleteUpdate(p)
  \/ \E p \in Procs, u \in UserIds, id \in JobIds : CancelFind(p, u, id)
  \/ \E p \in Procs : CancelUpdate(p)
  \/ Tick(AccessTtl)

SpecJobs == Init /\ [][NextJobs]_vars

\* ------------------------------------------------------ secrets at rest
\* the authentication side and the business rows stay as they are
NoRequest == UNCHANGED <<users, sessions, devices, now, proc, nextRt, nextGen, issued,
                         ticks, hist, invoices, payments, jobs>>

\* a caller writes a secret: encrypt(text, key) with its two random draws
EncryptSecret(salt, iv) ==
  /\ vault.pc = "plain"
  /\ vault' = [vault EXCEPT !.pc = "stored",
                            !.data = encrypt(vault.text, vault.key, salt, iv)]
  /\ NoRequest

\* what a stored value looks like after it was written in another format:
\* a field short, a field long, or empty
Mangled(data, how) ==
  CASE how = "short" -> SubSeq(data, 1, Len(data) - Len(Split(data)[4]) - 1)
    [] how = "long" -> data \o <<":", "0", "0">>
    [] OTHER -> <<>>

\* the stored value is replaced by one of another format
Corrupt(how) ==
  /\ vault.pc = "stored"
  /\ vault' = [vault EXCEPT !.pc = "damaged", !.data = Mangled(vault.data, how),
                            !.whole = FALSE]
  /\ NoRequest

\* a caller reads the secret back: decrypt(stored, key)
DecryptSecret ==
  /\ vault.pc \in {"stored", "damaged"}
  /\ vault' = [vault EXCEPT !.pc = "read", !.out = decrypt(vault.data, vault.key)]
  /\ NoRequest

InitVault ==
  /\ AuthInit
  /\ BooksInit
  /\ vault \in {[NoVault EXCEPT !.pc = "plain", !.text = t, !.key = k] :
                  t \in Plaintexts, k \in Keys}

NextVault ==
  \/ \E salt \in RandomBytes, iv \in RandomBytes : EncryptSecret(salt, iv)
  \/ \E how \in {"short", "long", "empty"} : Corrupt(how)
  \/ DecryptSecret

SpecVault == InitVault /\ [][NextVault]_vars

\* ================================================================ claims

\* C1: refresh tokens are single-use: once a refresh with token rt has
\* succeeded, a refresh presenting rt is answered null (401), whatever
\* happened in between; the token the refresh returned is the one stored.
C1_RefreshSingleUse ==
  /\ \A rt \in rtUsed : RefreshResult(rt) = "null"
  /\ \A s \in sessions : s.refreshToken \notin rtUsed

\* a refresh has succeeded, its session lives on under a new token that is
\* refreshable while the old one is not
C1_Witness ==
  \E rt \in rtUsed : \E s \in sessions :
    s.refreshToken # rt /\ s.id <= rt /\ RefreshResult(s.refreshToken) = "rotate"

\* C2: of the refresh requests that present the same refresh token, also
\* concurrently, at most one succeeds.
C2_RefreshRaceSafe == rtDouble = {}

\* C3: a login with the correct password for a user with mfaEnabled answers
\* requiresMfa with a temp token, leaves the Sessions as they are and does
\* not go on to createSession; a Session whose creating handler read
\* mfaEnabled = true was created by MFA verification.
C3_MfaLoginNoSession ==
  [][/\ \A p \in Procs, u \in UserIds, pw \in Passwords, d \in DeviceIds :
          (/\ LoginRead(p, u, pw, d)
           /\ users[u].mfaEnabled
           /\ users[u].passwordHash = {HashPassword(pw)})
          => /\ LoginResult(u, pw) = "requiresMfa"
             /\ sessions' = sessions
             /\ proc'[p] = IdleProc
             /\ Jwt(u, "mfa_temp", now) \in issued'
      /\ \A s \in sessions' : s.mfaSeen => s.via = "mfa"
      /\ \A q \in Procs : proc'[q].pc = "login_create" => ~proc'[q].mfaSeen]_vars

\* an MFA-enabled user has logged in with the password: a temp token is out
C3_Witness ==
  \E j \in issued : j.type = "mfa_temp" /\ users[j.userId].mfaEnabled

\* C4: the authenticate middleware rejects a temporary MFA token.
C4_TempTokenRejected == \A j \in issued : j.type = "mfa_temp" => ~Authenticate(j)

\* C5: when a password-reset confirm completes for user u, no Session of u
\* remains, the Sessions of the other users are those that existed when the
\* request started, u's hash is the new one and the reset fields are null.
C5_ResetRevokesAll ==
  [][\A p \in Procs :
       ConfirmRevoke(p) =>
         /\ {s \in sessions' : s.userId = proc[p].uid} = {}
         /\ sessions' = {s \in proc[p].snap : s.userId # proc[p].uid}
         /\ users'[proc[p].uid].passwordHash = {HashPassword(proc[p].pw)}
         /\ users'[proc[p].uid].resetHash = {}
         /\ users'[proc[p].uid].resetExpiry = {}]_vars

\* a confirm has completed for a user who had a Session, while another
\* user's Session is still there
C5_Witness ==
  /\ resetUsed # {}
  /\ \E u \in UserIds, v \in UserIds :
       /\ u # v
       /\ users[u].exists
       /\ SessionsOf(u) = {}
       /\ SessionsOf(v) # {}
       /\ users[u].resetHash = {}

\* C6: a reset token is single-use: of the confirms presenting one token,
\* sequential or concurrent, at most one succeeds, and after a successful
\* confirm the token no longer verifies.
C6_ResetSingleUse ==
  /\ resetDouble = {}
  /\ \A t \in resetUsed : VerifyPasswordResetToken(t) = {}

\* backup codes issued to u and not yet used: the stored ones, in the clear
StoredCodes(u) ==
  IF users[u].backupCodes = {} THEN {}
  ELSE IF The(users[u].backupCodes).fmt = "json"
  THEN {The(users[u].backupCodes).codes[i] :
          i \in 1..Len(The(users[u].backupCodes).codes)}
  ELSE {Decrypt(The(users[u].backupCodes).codes[i]) :
          i \in 1..Len(The(users[u].backupCodes).codes)}

\* C7: with a valid temp token, a verification presenting an issued, unused
\* backup code succeeds, and one presenting a used backup code fails.
C7_BackupCodeOnce ==
  \A j \in issued :
    (VerifyTempToken(j) /\ users[j.userId].mfaSecret # {}) =>
      /\ \A c \in StoredCodes(j.userId) \ bcUsed : VerifyMfaResult(j, c) = "backup"
      /\ \A c \in bcUsed : VerifyMfaResult(j, c) # "backup"

\* C8: backup-code consumption is atomic: no backup code opens two
\* Sessions, and every backup code that opened one is gone from the store.
C8_AtomicConsume ==
  /\ bcDouble = {}
  /\ \A u \in UserIds : StoredCodes(u) \cap bcUsed = {}

\* C9: mfaEnabled implies a stored secret, for every user in every state.
C9_EnabledHasSecret ==
  \A u \in UserIds : users[u].mfaEnabled => users[u].mfaSecret # {}

\* C10: MFA setup stores a new encrypted secret and leaves mfaEnabled as it
\* was; a user with a secret but mfaEnabled = false logs in with the
\* password alone, and that login creates a Session.
C10_SetupDoesNotEnable ==
  [][/\ \A p \in Procs, j \in issued, impl \in {"ctrl", "route"} :
          SetupMfa(p, j, impl) =>
            /\ users'[j.userId].mfaEnabled = users[j.userId].mfaEnabled
            /\ users'[j.userId].mfaSecret = {Encrypt(nextGen)}
            /\ users'[j.userId].mfaSecret # users[j.userId].mfaSecret
      /\ \A u \in UserIds, pw \in Passwords :
          (/\ ~users[u].mfaEnabled
           /\ users[u].mfaSecret # {}
           /\ users[u].passwordHash = {HashPassword(pw)})
          => LoginResult(u, pw) = "session"
      /\ \A q \in Procs :
          LoginCreate(q) => \E s \in sessions' \ sessions : s.userId = proc[q].uid]_vars

\* a user who ran setup and never enabled MFA is being issued a Session by
\* a password login
C10_Witness ==
  \E p \in Procs :
    /\ proc[p].pc = "login_create"
    /\ users[proc[p].uid].mfaSecret # {}
    /\ ~users[proc[p].uid].mfaEnabled

\* a stored backup-code value that is a batch of BackupBatch encrypted blobs
EncryptedBatch(b) ==
  /\ b.fmt = "encArray"
  /\ Len(b.codes) = BackupBatch
  /\ \A i \in 1..Len(b.codes) : b.codes[i].fields = 4

\* C11: MFA enable answers 400 without a stored secret, 401 on a code that is
\* not valid for the stored secret, and otherwise succeeds; on success
\* mfaEnabled becomes true and a newly generated batch of 10 backup codes is
\* stored on the user in encrypted form.
C11_EnableStoresEncryptedCodes ==
  /\ [](\A u \in UserIds, c \in Codes, impl \in Impls :
          users[u].exists =>
            EnableResult(u, c, impl) =
              IF users[u].mfaSecret = {} THEN "400"
              ELSE IF ~TotpVerify(Decrypt(The(users[u].mfaSecret)), c, EnableWindow(impl))
              THEN "401"
              ELSE "write")
  /\ [][\A p \in Procs :
          EnableWrite(p) =>
            /\ users'[proc[p].uid].mfaEnabled
            /\ users'[proc[p].uid].backupCodes # users[proc[p].uid].backupCodes
            /\ \A b \in users'[proc[p].uid].backupCodes : EncryptedBatch(b)
            /\ users'[proc[p].uid].backupCodes # {}]_vars

\* C12: for a user with mfaEnabled, MFA disable goes through only with the
\* current password and a code valid for the stored secret, and answers 401
\* otherwise; when it goes through it sets mfaEnabled = false and nulls
\* mfaSecret and backupCodes.
C12_DisableNeedsPasswordAndCode ==
  /\ [](\A u \in UserIds, pw \in Passwords, c \in Codes :
          (users[u].exists /\ users[u].mfaEnabled) =>
            DisableResult(u, pw, c) =
              IF /\ users[u].passwordHash = {HashPassword(pw)}
                 /\ users[u].mfaSecret # {}
                 /\ TotpVerify(Decrypt(The(users[u].mfaSecret)), c, CtrlLoginWindow)
              THEN "write"
              ELSE "401")
  /\ [][\A p \in Procs :
          DisableWrite(p) =>
            /\ ~users'[proc[p].uid].mfaEnabled
            /\ users'[proc[p].uid].mfaSecret = {}
            /\ users'[proc[p].uid].backupCodes = {}]_vars

\* C13: verifyMfa gets to the code check only with a token that is signed by
\* this server, younger than 10 minutes and of type mfa_temp; any other token
\* is answered 401 and opens no Session.  A temp token is not single-use:
\* one that a verification has succeeded with is accepted again, with a code
\* valid for the stored secret, until it expires.
C13_TempTokenFailClosedReusable ==
  /\ [](\A j \in issued \cup ForgedTempTokens, c \in Codes :
          ~(j \in issued /\ now < j.iat + TempTtl /\ j.type = "mfa_temp")
            => VerifyMfaResult(j, c) = "401")
  /\ [](\A j \in tempUsed :
          (now < j.iat + TempTtl /\ users[j.userId].mfaSecret # {})
            => VerifyMfaResult(j, TotpCode(Decrypt(The(users[j.userId].mfaSecret)),
                                           CurrentStep)) = "totp")
  /\ [][/\ \A p \in Procs :
             (proc[p].pc = "idle" /\ proc'[p].pc = "mfa_commit") =>
               \E j \in proc'[p].tok :
                 j \in issued /\ now < j.iat + TempTtl /\ j.type = "mfa_temp"
        /\ \A s \in sessions' \ sessions :
             s.via = "mfa" =>
               \E p \in Procs : /\ proc[p].pc = "mfa_commit"
                                /\ proc[p].uid = s.userId
                                /\ proc[p].tok \subseteq tempUsed'
                                /\ proc[p].tok # {}]_vars

\* a temp token that already opened a Session has been accepted a second
\* time and its verification is about to open another
C13_Witness ==
  \E p \in Procs :
    /\ proc[p].pc = "mfa_commit"
    /\ proc[p].tok # {}
    /\ proc[p].tok \subseteq tempUsed
    /\ \E s \in sessions : s.via = "mfa" /\ s.userId = proc[p].uid

\* C14: an authenticated password change with the correct current password
\* replaces the user's password hash and leaves every Session, of that user
\* and of the others, as it was; with a wrong current password it answers
\* 401 and changes neither the hash nor any Session.
C14_ChangeKeepsSessions ==
  /\ [](\A u \in UserIds, cur \in Passwords :
          (users[u].exists /\ users[u].passwordHash # {}) =>
            ChangePasswordResult(u, cur) =
              IF users[u].passwordHash = {HashPassword(cur)} THEN "write" ELSE "401")
  /\ [][\A p \in Procs, j \in issued, cur \in Passwords, new \in Passwords :
          ChangePassword(p, j, cur, new) =>
            /\ sessions' = sessions
            /\ users' = IF users[j.userId].passwordHash = {HashPassword(cur)}
                        THEN [users EXCEPT ![j.userId].passwordHash = {HashPassword(new)}]
                        ELSE users]_vars

\* a user whose password was changed (no reset was ever confirmed or is
\* under way) still has a Session
C14_Witness ==
  /\ resetUsed = {}
  /\ \A p \in Procs : proc[p].op # "confirmReset"
  /\ \E u \in UserIds :
       /\ users[u].passwordHash = {HashPassword("pwB")}
       /\ SessionsOf(u) # {}

\* C15: the answer to a password-reset request is the same for an email
\* that belongs to a user and for one that does not, in every execution;
\* when the user exists a reset-token hash and a one-hour expiry are stored
\* on that user, and when it does not no user record changes.
C15_ResetRequestUniform ==
  /\ [](\A u \in UserIds, v \in UserIds, impl \in Impls, mail \in MailOutcomes :
          RequestResetResult(u, impl, mail) = RequestResetResult(v, impl, mail))
  /\ [][\A p \in Procs, u \in UserIds, impl \in Impls, mail \in MailOutcomes :
          RequestPasswordReset(p, u, impl, mail) =>
            IF users[u].exists
            THEN /\ users'[u].resetHash = {Sha256(nextGen)}
                 /\ users'[u].resetExpiry = {now + ResetTtl}
            ELSE users' = users]_vars

\* C16: a throwing email send never fails the enclosing operation: register,
\* password-reset request and MFA enable answer as they do when the send
\* succeeds, and write the same persistent state.
C16_MailFailureSwallowed ==
  [][/\ \A p \in Procs, e \in RawEmails, d \in DeviceIds, impl \in Impls :
          (Register(p, e, InitialPw, d, impl, "throws") /\ users' # users) =>
            /\ RegisterResult(e, impl, "throws") = 201
            /\ Register(p, e, InitialPw, d, impl, "sent")
     /\ \A p \in Procs, u \in UserIds, impl \in Impls :
          (RequestPasswordReset(p, u, impl, "throws") /\ users' # users) =>
            /\ RequestResetResult(u, impl, "throws") = RequestResetResult(u, impl, "sent")
            /\ RequestPasswordReset(p, u, impl, "sent")
     /\ \A p \in Procs :
          EnableWrite(p) =>
            EnableWriteResult(proc[p].impl, "throws") = EnableWriteResult(proc[p].impl, "sent")]_vars

\* C17: a register request whose normalised email is that of an existing
\* User is answered 409 and creates no User, Session or Device; any other
\* creates exactly one User (FREE, TRIAL, trial end 14 days out), one Session
\* and one Device record and is answered 201.
C17_RegisterRejectsDuplicate ==
  /\ [](\A e \in RawEmails, impl \in Impls, mail \in MailOutcomes :
          users[ToLowerCase(e)].exists => RegisterResult(e, impl, mail) = 409)
  /\ [][\A p \in Procs, e \in RawEmails, d \in DeviceIds, impl \in Impls, mail \in MailOutcomes :
          Register(p, e, InitialPw, d, impl, mail) =>
            IF users[ToLowerCase(e)].exists
            THEN UNCHANGED store
            ELSE /\ RegisterResult(e, impl, mail) = 201
                 /\ {u \in UserIds : users'[u].exists /\ ~users[u].exists} = {ToLowerCase(e)}
                 /\ users'[ToLowerCase(e)].tier = "FREE"
                 /\ users'[ToLowerCase(e)].status = "TRIAL"
                 /\ users'[ToLowerCase(e)].trialEndsAt = {now + TrialTtl}
                 /\ sessions \subseteq sessions'
                 /\ Cardinality(sessions' \ sessions) = 1
                 /\ \A s \in sessions' \ sessions : s.userId = ToLowerCase(e)
                 /\ Cardinality(devices' \ devices) = 1
                 /\ \A x \in devices' \ devices :
                      x.userId = ToLowerCase(e) /\ x.deviceId = d]_vars

\* C18: for a user without MFA, login with the correct password on an
\* account that is not soft-deleted goes on to create exactly one Session,
\* set lastLoginAt and record the device; with an unknown email, a wrong
\* password, a null password hash or a soft-deleted account it answers 401
\* and writes nothing.
C18_LoginWithoutMfa ==
  /\ [](\A u \in UserIds, pw \in Passwords :
          ~users[u].mfaEnabled =>
            LoginResult(u, pw) =
              IF /\ users[u].exists
                 /\ users[u].passwordHash = {HashPassword(pw)}
                 /\ users[u].deletedAt = {}
              THEN "session"
              ELSE "401")
  /\ [][/\ \A p \in Procs, u \in UserIds, pw \in Passwords, d \in DeviceIds :
             LoginRead(p, u, pw, d) =>
               /\ UNCHANGED store
               /\ proc'[p].pc = "login_create" => LoginResult(u, pw) = "session"
        /\ \A p \in Procs :
             LoginCreate(p) =>
               /\ sessions \subseteq sessions'
               /\ Cardinality(sessions' \ sessions) = 1
               /\ \A s \in sessions' \ sessions :
                    s.userId = proc[p].uid /\ s.deviceId = proc[p].dev
               /\ users'[proc[p].uid].lastLoginAt = {now}
               /\ Cardinality({x \in devices' : x.userId = proc[p].uid
                                               /\ x.deviceId = proc[p].dev
                                               /\ x.lastUsedAt = now}) = 1]_vars

\* a password login has opened a Session and set lastLoginAt while another
\* account is soft-deleted or has no password hash and no Session from login
C18_Witness ==
  \E s \in sessions, v \in UserIds :
    /\ s.via = "login"
    /\ users[s.userId].lastLoginAt # {}
    /\ users[v].exists
    /\ users[v].deletedAt # {} \/ users[v].passwordHash = {}
    /\ LoginResult(v, InitialPw) = "401"

\* C19: refresh answers null, and changes no Session, when the presented
\* refresh token is stored on no Session or on one whose expiresAt is in the
\* past; it goes on to the update only for a stored, unexpired token.
C19_RefreshNullOnUnknownOrExpired ==
  /\ [](\A rt \in KnownRts :
          RefreshResult(rt) =
            IF \E s \in sessions : s.refreshToken = rt /\ s.expiresAt >= now
            THEN "rotate"
            ELSE "null")
  /\ [][\A p \in Procs :
          (proc[p].pc = "idle" /\ proc'[p].pc = "refresh_update") =>
            /\ sessions' = sessions
            /\ \E s \in sessions : s.refreshToken = proc'[p].n /\ s.expiresAt >= now]_vars

\* a Session has expired and a refresh with its stored token is answered
\* null, while a forged token is answered null too
C19_Witness ==
  \E s \in sessions :
    /\ s.expiresAt < now
    /\ RefreshResult(s.refreshToken) = "null"
    /\ RefreshResult(0) = "null"

\* C20: a successful refresh updates one Session row in place: access token,
\* refresh token and lastUsedAt change, userId, deviceInfo and expiresAt stay,
\* no row is created or deleted; expiresAt is creation time plus 7 days, so
\* no Session is refreshable later than 7 days after it was created.
C20_RefreshInPlace ==
  /\ [][\A p \in Procs :
          (RefreshUpdate(p) /\ sessions' # sessions) =>
            \E s \in sessions, t \in sessions' :
              /\ sessions' = (sessions \ {s}) \cup {t}
              /\ Cardinality(sessions') = Cardinality(sessions)
              /\ t.id = s.id
              /\ t.userId = s.userId
              /\ t.deviceId = s.deviceId
              /\ t.expiresAt = s.expiresAt
              /\ t.createdAt = s.createdAt
              /\ t.refreshToken # s.refreshToken
              /\ t.token = Jwt(s.userId, "access", now)
              /\ t.lastUsedAt = now]_vars
  /\ [](\A s \in sessions :
          /\ s.expiresAt = s.createdAt + SessionTtl
          /\ RefreshResult(s.refreshToken) = "rotate" => now <= s.createdAt + SessionTtl)

\* a Session that was refreshed is now past its 7 days and no longer
\* refreshable
C20_Witness ==
  \E s \in sessions :
    /\ s.refreshToken # s.id
    /\ now > s.createdAt + SessionTtl
    /\ RefreshResult(s.refreshToken) = "null"

\* C21: logout deletes exactly the Sessions whose stored access token is the
\* presented one, logout-all exactly the Sessions of the calling user; when
\* those Sessions are already gone the request is still answered 200 and
\* changes nothing; Sessions of other users are never deleted.
C21_LogoutExactIdempotent ==
  /\ [](\A j \in issued :
          Authenticate(j) =>
            /\ LogoutResult(j) = 200
            /\ (\A s \in sessions : s.token # j) => RevokeSession(j) = sessions
            /\ SessionsOf(j.userId) = {} => RevokeAllSessions(j.userId) = sessions)
  /\ [][\A p \in Procs, j \in issued :
          /\ Logout(p, j) =>
               /\ sessions' = {s \in sessions : s.token # j}
               /\ \A s \in sessions \ sessions' : s.userId = j.userId
          /\ LogoutAll(p, j) =>
               /\ sessions' = {s \in sessions : s.userId # j.userId}
               /\ \A u \in UserIds \ {j.userId} :
                    {s \in sessions' : s.userId = u} = SessionsOf(u)]_vars

\* a user has logged out of one Session and keeps another, a second user
\* still has a Session, and the token that was logged out still
\* authenticates (a repeated logout is answered 200)
C21_Witness ==
  \E j \in issued :
    /\ j.type = "access"
    /\ Authenticate(j)
    /\ \A s \in sessions : s.token # j
    /\ \A s \in sessions : s.refreshToken # s.id => s.userId # j.userId
    /\ SessionsOf(j.userId) # {}
    /\ \E v \in UserIds \ {j.userId} : SessionsOf(v) # {}

\* C22: when user u has removed the device with deviceId d (the request was
\* answered 200), no Device row (u, d) and no Session of u with deviceId d
\* remains, and that request changes no other Device and no other Session.
C22_RemoveDeviceExact ==
  [][\A p \in Procs :
       (/\ proc[p].pc = "remove_finish"
        /\ proc'[p].pc = "idle"
        /\ RemoveDeviceResult(p) = 200
        /\ proc[p].dev \in SeenDeviceIds) =>
         /\ \A x \in devices' : ~(x.userId = proc[p].uid /\ x.deviceId = proc[p].dev)
         /\ \A s \in sessions' : ~(s.userId = proc[p].uid /\ s.deviceId = proc[p].dev)
         /\ devices' \subseteq devices
         /\ sessions' \subseteq sessions
         /\ \A x \in devices \ devices' :
              x.userId = proc[p].uid /\ x.deviceId = proc[p].dev
         /\ \A s \in sessions \ sessions' :
              s.userId = proc[p].uid /\ s.deviceId = proc[p].dev]_vars

\* C23: there is at most one Device row per (userId, deviceId) in every
\* reachable state, also with logins from one device running concurrently;
\* the first sight of a pair creates the row, every later sight changes that
\* row's lastUsedAt and nothing else (name and platform stay as first
\* recorded).
C23_DeviceUnique ==
  /\ [](\A x \in devices, y \in devices :
          (x.userId = y.userId /\ x.deviceId = y.deviceId) => x = y)
  /\ [][/\ \A p \in Procs :
             (proc[p].pc = "login_create" /\ proc'[p].pc = "idle") =>
               LET old == {x \in devices : x.userId = proc[p].uid
                                           /\ x.deviceId = proc[p].dev} IN
               IF old = {}
               THEN devices' = devices \cup
                      {[id |-> RowId(nextRt), userId |-> proc[p].uid,
                        deviceId |-> proc[p].dev,
                        name |-> GenerateDeviceName(proc[p].info),
                        platform |-> DetectPlatform(proc[p].info),
                        lastUsedAt |-> now]}
               ELSE devices' = (devices \ old) \cup {[The(old) EXCEPT !.lastUsedAt = now]}
        /\ \A x \in devices, y \in devices' :
             x.id = y.id =>
               /\ x.userId = y.userId
               /\ x.deviceId = y.deviceId
               /\ x.name = y.name
               /\ x.platform = y.platform]_vars

\* two logins from one device are in flight at once, both past the password
\* check, for a pair whose row was recorded under another name than the one
\* these requests would give it
C23_Witness ==
  \E p \in Procs, q \in Procs, x \in devices :
    /\ p # q
    /\ proc[p].pc = "login_create"
    /\ proc[q].pc = "login_create"
    /\ proc[p].uid = x.userId /\ proc[p].dev = x.deviceId
    /\ proc[q].uid = x.userId /\ proc[q].dev = x.deviceId
    /\ x.name # GenerateDeviceName(proc[p].info)
    /\ x.lastUsedAt < now

\* |k| for an integer k
Abs(k) == IF k < 0 THEN 0 - k ELSE k

\* C24: with the server clock at step t and a code generated for step t+k,
\* MFA login verification and MFA disable accept the code exactly when
\* |k| <= 1, and MFA enable accepts it exactly when |k| <= 2.
C24_TotpWindows ==
  \A u \in UserIds, k \in (0 - MaxSkew)..MaxSkew :
    users[u].mfaSecret # {} =>
      LET c == TotpCode(Decrypt(The(users[u].mfaSecret)), CurrentStep + k) IN
      /\ \A impl \in Impls : (EnableResult(u, c, impl) = "write") <=> (Abs(k) <= 2)
      /\ \A j \in issued :
           (VerifyTempToken(j) /\ j.userId = u) =>
             ((VerifyMfaResult(j, c) = "totp") <=> (Abs(k) <= 1))
      /\ \A pw \in Passwords :
           users[u].passwordHash = {HashPassword(pw)} =>
             ((DisableResult(u, pw, c) = "write") <=> (Abs(k) <= 1))

\* C25: for all plaintexts p and keys k, decrypt(encrypt(p, k), k) = p; the
\* blob is four ':'-joined hex fields (salt, iv, auth tag, ciphertext); and
\* decrypt of a string that does not split into four ':'-separated fields
\* fails with an error instead of returning a plaintext.
C25_RoundTrip ==
  /\ vault.pc = "stored" =>
       /\ Len(Split(vault.data)) = 4
       /\ \A i \in 1..Len(vault.data) :
            vault.data[i] = ":" \/ \E k \in 1..16 : HexDigits[k] = vault.data[i]
  /\ (vault.pc = "read" /\ vault.whole) => vault.out = Returned(vault.text)
  /\ (vault.pc = "read" /\ Len(Split(vault.data)) # 4) =>
       vault.out = Thrown("Invalid encrypted data format")

\* C26: an access token stops authenticating once its Session is revoked:
\* when a step deletes the Session row that stores an access token, the
\* authenticate middleware no longer accepts that token; authenticate
\* accepts an access token only while a Session storing it exists.
C26_RevokedTokenRejected ==
  [][\A s \in sessions :
       (\A t \in sessions' : t.id # s.id) => ~Authenticate(s.token)']_vars

\* C27: while mfaEnabled is true, the stored MFA secret and the stored backup
\* codes change only in a request that verified an MFA code or a backup code
\* (enable, disable, MFA login); a request that carries an access token
\* alone, MFA setup in particular, does not replace them.
C27_EnabledSecretGuarded ==
  [][\A u \in UserIds :
       (/\ users[u].mfaEnabled
        /\ \/ users'[u].mfaSecret # users[u].mfaSecret
           \/ users'[u].backupCodes # users[u].backupCodes) =>
         \E p \in Procs :
           /\ proc[p].uid = u
           /\ proc[p].pc \in {"enable_write", "disable_write", "mfa_commit"}
           /\ proc'[p].pc = "idle"]_vars

\* C28: when a password-reset confirm for user u completes, no login of u
\* that verified another password than the new one is past its password
\* check and on its way to createSession: no Session of u is created after
\* the reset on the strength of the pre-reset password.
C28_NoSessionFromOldPassword ==
  [][\A p \in Procs :
       (proc[p].pc = "confirm_revoke" /\ proc'[p].pc = "idle") =>
         \A q \in Procs \ {p} :
           ~(/\ proc'[q].pc = "login_create"
             /\ proc'[q].uid = proc[p].uid
             /\ users'[proc[p].uid].passwordHash # {HashPassword(proc'[q].pw)})]_vars

RECURSIVE SumAmounts(_)
SumAmounts(S) ==
  IF S = {} THEN 0 ELSE LET x == The(S) IN x.amount + SumAmounts(S \ {x})

\* C29: whenever no mark-paid request is under way, an invoice that has
\* Payment rows has amountPaid equal to the sum of their amounts, amountDue
\* equal to total minus amountPaid, and status PAID exactly when amountDue
\* is at most 0.
C29_PaymentBookkeeping ==
  (\A p \in Procs : Free(p)) =>
    \A id \in InvoiceIds :
      {x \in payments : x.invoiceId = id} # {} =>
        /\ invoices[id].amountPaid = SumAmounts({x \in payments : x.invoiceId = id})
        /\ invoices[id].amountDue = invoices[id].total - invoices[id].amountPaid
        /\ (invoices[id].status = "PAID") <=> (invoices[id].amountDue <= 0)

\* C30: start changes a job to IN_PROGRESS only from SCHEDULED, complete
\* changes it to COMPLETED only from IN_PROGRESS or SCHEDULED, cancel changes
\* it to CANCELLED only from a status other than COMPLETED and CANCELLED; a
\* rejected transition leaves the job unchanged, so under start, complete and
\* cancel a COMPLETED or CANCELLED job never changes again.
C30_JobTransitionsGuarded ==
  [][\A id \in JobIds :
       (jobs[id].exists /\ jobs'[id] # jobs[id]) =>
         /\ jobs[id].status \notin {"COMPLETED", "CANCELLED"}
         /\ jobs'[id].status = "IN_PROGRESS" => jobs[id].status = "SCHEDULED"
         /\ jobs'[id].status = "COMPLETED" =>
              jobs[id].status \in {"IN_PROGRESS", "SCHEDULED"}
         /\ jobs'[id].status \in {"IN_PROGRESS", "COMPLETED", "CANCELLED"}]_vars

====
